---- MODULE Spec2Model ----
(***************************************************************************)
(* The Hacker News API client (hackernews-api.ts) and the two agent tools  *)
(* built on it (tools.ts, kept in prompt.ts).  Every operation is an async *)
(* function: an action is the code that runs between two awaits.           *)
(***************************************************************************)
EXTENDS Integers, Sequences, FiniteSets, TLC

\* ------------------------------------------------------------------ bounds
MaxId    == 2     \* item identifiers 1..MaxId; a feed or a batch holds at most MaxId
MaxTime  == 3     \* item creation times 1..MaxTime (seconds)
MaxTicks == 2     \* how often the wall clock advances during one call
TickMs   == 500   \* milliseconds per advance of the wall clock

\* ------------------------------------------------------- program constants
DefaultLimit == 30                  \* `limit = 30`, `count = 30`
LimitCap     == 50                  \* Math.min(limit, 50) in list_hacker_news
DaySeconds   == 24 * 60 * 60        \* the recency window of getTodaysTopStories
DayMs        == DaySeconds * 1000
StartMs      == DayMs + 2000        \* the wall clock when the operation is called

\* ------------------------------------------------------------------ values
ItemIds == 1 .. MaxId
Times   == 1 .. MaxTime
Kinds   == {"story", "job"}

Null    == [tag |-> "null"]
Item(id, type, time) == [tag |-> "item", id |-> id, type |-> type, time |-> time]
Items   == {Item(id, k, t) : id \in ItemIds, k \in Kinds, t \in Times}

Pending   == [kind |-> "pending"]
Value(v)  == [kind |-> "value", val |-> v]
Raised(e) == [kind |-> "raise", err |-> e]

\* What a rejected fetch() or body read carries: always an Error instance.
Errors == {[isError |-> TRUE, message |-> "error sending request"]}
ErrorStatuses == {500}

\* How `await fetch(...)` settles: it rejects, or it yields a response.
Throw(e)       == [kind |-> "throw", err |-> e]
Response(s)    == [kind |-> "response", ok |-> (s >= 200 /\ s <= 299), status |-> s]
FetchOutcomes  == {Throw(e) : e \in Errors} \cup {Response(s) : s \in {200} \cup ErrorStatuses}

\* How `await response.json()` / `response.text()` settles.
Body(v)        == [kind |-> "body", val |-> v]
BodyOutcomes(vals) == {Throw(e) : e \in Errors} \cup {Body(v) : v \in vals}

\* Sequences of distinct identifiers: a feed, or the input of getItems.
IdSeqs == {s \in UNION {[1 .. n -> ItemIds] : n \in 0 .. MaxId} :
             \A i, j \in DOMAIN s : s[i] = s[j] => i = j}

Min(a, b) == IF a < b THEN a ELSE b
Max(a, b) == IF a > b THEN a ELSE b

\* Array.prototype.slice(0, end) for an integer end.
Slice0(s, end) ==
    LET k == IF end < 0 THEN Max(Len(s) + end, 0) ELSE Min(end, Len(s))
    IN  SubSeq(s, 1, k)

\* ------------------------------------------------------------------- state
VARIABLES
    op,         \* the public operation in progress ("idle" before the call)
    arg,        \* its arguments
    pc,         \* the await the operation is suspended at, or "done"
    http,       \* the one sequential request in flight (list, search, scrape)
    reply,      \* history: how the network answered the sequential request
    ids,        \* the identifiers handed to getItems
    promises,   \* getItems: promises[i] is the state of getItem(ids[i])
    net,        \* history: what the item endpoint answered for ids[i]
    settled,    \* history: the indices in the order their promises settled
    netCalls,   \* history: the number of fetch() calls issued
    now,        \* Date.now(), in milliseconds
    callTime,   \* history: Date.now() when the operation was called
    filterTime, \* history: Date.now() as read by the recency filter
    result,     \* what the operation returned to its caller
    tool        \* list_hacker_news: one invocation, its batch kept as counts

vars == <<op, arg, pc, http, reply, ids, promises, net, settled, netCalls, now,
          callTime, filterTime, result, tool>>

batchVars == <<ids, promises, net, settled>>
clockVars == <<now, callTime, filterTime>>

NoHttp == [st |-> "none"]

\* What is recorded of a settled fetch, and of a body that was read.
FetchReply(resp) ==
    IF resp.kind = "throw" THEN [fault |-> "transport", err |-> resp.err]
    ELSE IF ~resp.ok THEN [fault |-> "status", status |-> resp.status]
    ELSE Pending
JsonReply(body) ==
    IF body.kind = "throw" THEN [fault |-> "parse", err |-> body.err]
    ELSE [fault |-> "none", body |-> body.val]
TextReply(status, body) ==
    IF body.kind = "throw" THEN [fault |-> "status", status |-> status, err |-> body.err]
    ELSE [fault |-> "status", status |-> status, text |-> body.val]
Failed == [tag |-> "failed"]

Init ==
    /\ op = "idle"
    /\ arg = [none |-> TRUE]
    /\ pc = "idle"
    /\ http = NoHttp
    /\ reply = Pending
    /\ ids = <<>>
    /\ promises = <<>>
    /\ net = <<>>
    /\ settled = <<>>
    /\ netCalls = 0
    /\ now = StartMs
    /\ callTime = 0
    /\ filterTime = 0
    /\ result = Pending
    /\ tool = [st |-> "idle"]

\* ---------------------------------------------------------------- getItem
\* getItem(id) up to its first await: the fetch is issued.
getItemCalled == [st |-> "fetch", out |-> Pending]

\* getItem after `await fetch(...)`: catch and !response.ok give null.
getItemFetched(resp) ==
    IF resp.kind = "throw" THEN [st |-> "done", out |-> Value(Null)]
    ELSE IF ~resp.ok THEN [st |-> "done", out |-> Value(Null)]
    ELSE [st |-> "json", out |-> Pending]

\* `return response.json()` without the await: a rejection escapes the catch.
getItemParsedNoAwait(body) ==
    IF body.kind = "throw" THEN [st |-> "done", out |-> Raised(body.err)]
    ELSE [st |-> "done", out |-> Value(body.val)]

\* getItem after `await response.json()`: the body as parsed, or null from the catch.
getItemParsed(body) ==
    IF body.kind = "throw" THEN [st |-> "done", out |-> Value(Null)]
    ELSE [st |-> "done", out |-> Value(body.val)]

\* The item endpoint answers with the item of that identifier, or with null.
ItemBodies(id) == {Null} \cup {it \in Items : it.id = id}

\* ---------------------------------------------------------------- getItems
\* A sequential resolver: only the first fetch is issued before the first await.
IssueFirstOnly(s) ==
    [i \in 1 .. Len(s) |-> IF i = 1 THEN getItemCalled ELSE [st |-> "unissued", out |-> Pending]]

\* ids.map(id => getItem(id)): every getItem runs to its first await.
IssueAll(s) == [i \in 1 .. Len(s) |-> getItemCalled]

Issued(ps) == Cardinality({i \in DOMAIN ps : ps[i].st # "unissued"})
AllSettled(ps) == \A i \in DOMAIN ps : ps[i].st = "done"
AnyRejected(ps) == \E i \in DOMAIN ps : ps[i].st = "done" /\ ps[i].out.kind = "raise"
FirstRejected(ps) ==
    LET i == CHOOSE j \in DOMAIN ps : ps[j].st = "done" /\ ps[j].out.kind = "raise"
    IN  ps[i].out

NotNull(item) == item # Null

\* The resolved items collected in the order their fetches completed.
CompletionOrder(ps, order) ==
    SelectSeq([k \in 1 .. Len(order) |-> ps[order[k]].out.val], NotNull)

\* items.filter(item => item !== null) over the values of Promise.all, in input order.
NonNullItems(ps, order) ==
    SelectSeq([i \in 1 .. Len(ps) |-> ps[i].out.val], NotNull)

\* getItems(s) up to `await Promise.all(promises)`.
StartItems(s) ==
    /\ ids' = s
    /\ promises' = IssueAll(s)
    /\ net' = [i \in 1 .. Len(s) |-> Pending]
    /\ netCalls' = netCalls + Issued(promises')
    /\ pc' = "items"
    /\ UNCHANGED settled

Call_getItems(s) ==
    /\ op = "idle"
    /\ op' = "getItems"
    /\ arg' = [ids |-> s]
    /\ StartItems(s)
    /\ callTime' = now
    /\ UNCHANGED <<http, reply, now, filterTime, result, tool>>

\* One item fetch settles; its getItem continues to the next await or returns.
ItemFetchSettles(i) ==
    /\ i \in DOMAIN promises
    /\ promises[i].st = "fetch"
    /\ \E resp \in FetchOutcomes :
         /\ promises' = [promises EXCEPT ![i] = getItemFetched(resp)]
         /\ IF resp.kind = "response" /\ resp.ok
            THEN UNCHANGED <<net, settled>>
            ELSE /\ net' = [net EXCEPT ![i] = Failed]
                 /\ settled' = Append(settled, i)
    /\ UNCHANGED <<op, arg, pc, http, reply, ids, netCalls, clockVars, result, tool>>

\* One item body is read and parsed; its getItem returns.
ItemJsonSettles(i) ==
    /\ i \in DOMAIN promises
    /\ promises[i].st = "json"
    /\ \E body \in BodyOutcomes(ItemBodies(ids[i])) :
         /\ promises' = [promises EXCEPT ![i] = getItemParsed(body)]
         /\ net' = [net EXCEPT ![i] = IF body.kind = "body" /\ body.val # Null
                                      THEN body.val ELSE Failed]
    /\ settled' = Append(settled, i)
    /\ UNCHANGED <<op, arg, pc, http, reply, ids, netCalls, clockVars, result, tool>>

\* ----------------------------------------------------- getTodaysTopStories
OneDayAgoMs(nowMs) == nowMs - DayMs

\* story.time > oneDayAgo: an item created exactly 24 hours ago is dropped.
IsTodaysStoryStrict(story, nowMs) ==
    story.time * 1000 > OneDayAgoMs(nowMs) /\ story.type = "story"

\* The recency filter without the kind test.
IsTodaysAnyKind(story, nowMs) ==
    story.time * 1000 >= OneDayAgoMs(nowMs)

\* story.time >= Date.now() / 1000 - 86400 && story.type === "story"
IsTodaysStory(story, nowMs) ==
    story.time * 1000 >= OneDayAgoMs(nowMs) /\ story.type = "story"

TodaysStories(stories, nowMs) ==
    LET Keep(story) == IsTodaysStory(story, nowMs) IN SelectSeq(stories, Keep)

\* `await Promise.all(promises)` resumes: every promise fulfilled, or one rejected.
JoinAll ==
    /\ pc = "items"
    /\ AllSettled(promises) \/ AnyRejected(promises)
    /\ pc' = "done"
    /\ IF AnyRejected(promises)
       THEN /\ result' = FirstRejected(promises)
            /\ UNCHANGED filterTime
       ELSE LET stories == NonNullItems(promises, settled) IN
            IF op = "getTodaysTopStories"
            THEN /\ filterTime' = now
                 /\ result' = Value(TodaysStories(stories, now))
            ELSE /\ result' = Value(stories)
                 /\ UNCHANGED filterTime
    /\ UNCHANGED <<op, arg, http, reply, batchVars, netCalls, now, callTime, tool>>

\* The wall clock advances while getTodaysTopStories is suspended.
Tick ==
    /\ op = "getTodaysTopStories"
    /\ pc # "done"
    /\ now < StartMs + MaxTicks * TickMs
    /\ now' = now + TickMs
    /\ UNCHANGED <<op, arg, pc, http, reply, batchVars, netCalls, callTime,
                   filterTime, result, tool>>

\* ------------------------------ getTopStories / getNewStories / getBestStories
ListOps == {"getTopStories", "getNewStories", "getBestStories"}
Limits  == (-(MaxId + 1) .. MaxId + 1) \cup {DefaultLimit, LimitCap}
Counts  == {-1, 1, DefaultLimit}

\* The three list fetchers after `await fetch(...)`.
getStoriesFetched(resp) ==
    IF resp.kind = "throw" THEN [st |-> "done", out |-> Value(<<>>)]
    ELSE IF ~resp.ok THEN [st |-> "done", out |-> Value(<<>>)]
    ELSE [st |-> "json", out |-> Pending]

\* The identifiers sorted instead of kept in feed order.
RECURSIVE Insert(_, _)
Insert(x, s) ==
    IF s = <<>> THEN <<x>>
    ELSE IF x <= Head(s) THEN <<x>> \o s ELSE <<Head(s)>> \o Insert(x, Tail(s))
RECURSIVE Sorted(_)
Sorted(s) == IF s = <<>> THEN <<>> ELSE Insert(Head(s), Sorted(Tail(s)))
getStoriesSorted(body, limit) ==
    IF body.kind = "throw" \/ body.val.tag # "array"
    THEN [st |-> "done", out |-> Value(<<>>)]
    ELSE [st |-> "done", out |-> Value(Slice0(Sorted(body.val.elems), limit))]

\* After `await response.json()`: a parse failure, and a body that is no array
\* (ids.slice is not a function), reach the catch; else ids.slice(0, limit).
getStoriesParsed(body, limit) ==
    IF body.kind = "throw" \/ body.val.tag # "array"
    THEN [st |-> "done", out |-> Value(<<>>)]
    ELSE [st |-> "done", out |-> Value(Slice0(body.val.elems, limit))]

\* The feed endpoint answers with a JSON array of identifiers, or with null.
JsonArray(s) == [tag |-> "array", elems |-> s]
FeedBodies == {JsonArray(s) : s \in IdSeqs} \cup {Null}

Call_getStories(name, limit) ==
    /\ op = "idle"
    /\ op' = name
    /\ arg' = [limit |-> limit]
    /\ pc' = "list"
    /\ http' = [st |-> "fetch"]
    /\ netCalls' = netCalls + 1
    /\ callTime' = now
    /\ UNCHANGED <<reply, batchVars, now, filterTime, result, tool>>

\* getTodaysTopStories(count) up to `await getTopStories(count)`.
Call_getTodaysTopStories(count) ==
    /\ op = "idle"
    /\ op' = "getTodaysTopStories"
    /\ arg' = [limit |-> count]
    /\ pc' = "list"
    /\ http' = [st |-> "fetch"]
    /\ netCalls' = netCalls + 1
    /\ callTime' = now
    /\ UNCHANGED <<reply, batchVars, now, filterTime, result, tool>>

\* The list fetcher returns `out`: to its caller, or into getTodaysTopStories,
\* which goes on to getItems(topStoryIds).
ListReturns(out) ==
    /\ http' = NoHttp
    /\ IF op = "getTodaysTopStories"
       THEN /\ StartItems(out.val)
            /\ UNCHANGED result
       ELSE /\ result' = out
            /\ pc' = "done"
            /\ UNCHANGED <<batchVars, netCalls>>

ListFetchSettles ==
    /\ pc = "list"
    /\ http.st = "fetch"
    /\ \E resp \in FetchOutcomes :
         LET h == getStoriesFetched(resp) IN
         IF h.st = "done"
         THEN /\ ListReturns(h.out)
              /\ reply' = FetchReply(resp)
         ELSE /\ http' = [st |-> h.st]
              /\ UNCHANGED <<pc, reply, batchVars, netCalls, result>>
    /\ UNCHANGED <<op, arg, clockVars, tool>>

ListJsonSettles ==
    /\ pc = "list"
    /\ http.st = "json"
    /\ \E body \in BodyOutcomes(FeedBodies) :
         /\ ListReturns(getStoriesParsed(body, arg.limit).out)
         /\ reply' = JsonReply(body)
    /\ UNCHANGED <<op, arg, clockVars, tool>>

\* ----------------------------------------------------------- searchStories
Str(s) == [text |-> s]
EmptySearch == [hits |-> <<>>, nbHits |-> 0]
Hit == [objectID |-> "123", title |-> "T", author |-> "a", points |-> 5,
        num_comments |-> 2, created_at_i |-> 1000]
SearchBodies == {EmptySearch, [hits |-> <<Hit>>, nbHits |-> 1]}
Queries == {"rust"}

\* searchStories after `await fetch(...)`: a rejection, and the Error thrown on
\* !response.ok, both reach the catch.
searchStoriesFetched(resp) ==
    IF resp.kind = "throw" THEN [st |-> "done", out |-> Value(EmptySearch)]
    ELSE IF ~resp.ok THEN [st |-> "done", out |-> Value(EmptySearch)]
    ELSE [st |-> "json", out |-> Pending]

\* searchStories after `await response.json()`.
searchStoriesParsed(body) ==
    IF body.kind = "throw" THEN [st |-> "done", out |-> Value(EmptySearch)]
    ELSE [st |-> "done", out |-> Value(body.val)]

Call_searchStories(query) ==
    /\ op = "idle"
    /\ op' = "searchStories"
    /\ arg' = [query |-> query, tags |-> "story"]
    /\ pc' = "search"
    /\ http' = [st |-> "fetch"]
    /\ netCalls' = netCalls + 1
    /\ callTime' = now
    /\ UNCHANGED <<reply, batchVars, now, filterTime, result, tool>>

SearchFetchSettles ==
    /\ pc = "search"
    /\ http.st = "fetch"
    /\ \E resp \in FetchOutcomes :
         LET h == searchStoriesFetched(resp) IN
         IF h.st = "done"
         THEN /\ result' = h.out
              /\ pc' = "done"
              /\ http' = NoHttp
              /\ reply' = FetchReply(resp)
         ELSE /\ http' = [st |-> h.st]
              /\ UNCHANGED <<pc, result, reply>>
    /\ UNCHANGED <<op, arg, batchVars, netCalls, clockVars, tool>>

SearchJsonSettles ==
    /\ pc = "search"
    /\ http.st = "json"
    /\ \E body \in BodyOutcomes(SearchBodies) :
         /\ result' = searchStoriesParsed(body).out
         /\ reply' = JsonReply(body)
    /\ pc' = "done"
    /\ http' = NoHttp
    /\ UNCHANGED <<op, arg, batchVars, netCalls, clockVars, tool>>

\* --------------------------------------------------------------- scrapeUrl
\* A URL as its parts, so that String.prototype.includes is computed.
DiscussionPattern == <<"news.ycombinator.com", "/", "item">>
DiscussionUrl == <<"https://", "news.ycombinator.com", "/", "item", "?id=123">>
ArticleUrl    == <<"https://", "example.com", "/", "post">>
FrontPageUrl  == <<"https://", "news.ycombinator.com", "/", "news">>
Urls == {DiscussionUrl, ArticleUrl, FrontPageUrl}

Includes(s, p) ==
    \E i \in 1 .. (Len(s) - Len(p) + 1) : SubSeq(s, i, i + Len(p) - 1) = p

ApiKeys == {"", "fc-key"}
ScrapeStatuses == {401, 500}
ScrapeFetchOutcomes ==
    {Throw(e) : e \in Errors} \cup {Response(s) : s \in {200} \cup ScrapeStatuses}
ErrorTexts == {"server error", ""}

\* What the scraping service answers on success: any JSON.
Metadata == [title |-> "T", description |-> "D", ogSiteName |-> "S"]
ScrapeBodies ==
    { [success |-> TRUE, data |-> [markdown |-> "# Article", metadata |-> Metadata]],
      [success |-> TRUE, data |-> [markdown |-> ""]],
      [success |-> TRUE],
      [success |-> FALSE, error |-> Str("blocked")],
      [success |-> FALSE],
      Null }

\* error instanceof Error ? error.message : "Unknown error"
ErrorMessage(e) == IF e.isError THEN Str(e.message) ELSE Str("Unknown error")

\* `Firecrawl API error: ${response.status} - ${errorText}`
ApiError(status, errorText) ==
    [template |-> "Firecrawl API error: ${status} - ${errorText}",
     status |-> status, errorText |-> errorText]

ScrapeFailure(error) == [success |-> FALSE, error |-> error]

\* scrapeUrl after `await fetch(...)`.
scrapeUrlFetched(resp) ==
    IF resp.kind = "throw"
    THEN [st |-> "done", out |-> Value(ScrapeFailure(ErrorMessage(resp.err)))]
    ELSE IF ~resp.ok THEN [st |-> "text", status |-> resp.status, out |-> Pending]
    ELSE [st |-> "json", out |-> Pending]

\* The failure text without the response's body.
scrapeUrlTextNoBody(status, body) ==
    IF body.kind = "throw"
    THEN [st |-> "done", out |-> Value(ScrapeFailure(ErrorMessage(body.err)))]
    ELSE [st |-> "done", out |-> Value(ScrapeFailure(ApiError(status, "")))]

\* scrapeUrl after `await response.text()` of a non-success response.
scrapeUrlText(status, body) ==
    IF body.kind = "throw"
    THEN [st |-> "done", out |-> Value(ScrapeFailure(ErrorMessage(body.err)))]
    ELSE [st |-> "done", out |-> Value(ScrapeFailure(ApiError(status, body.val)))]

\* scrapeUrl after `await response.json()` of a success response.
scrapeUrlParsed(body) ==
    IF body.kind = "throw"
    THEN [st |-> "done", out |-> Value(ScrapeFailure(ErrorMessage(body.err)))]
    ELSE [st |-> "done", out |-> Value(body.val)]

\* ----------------------------------------------------------- fetch_article
\* Deno.env.get("FIRECRAWL_API_KEY") || ""
EnvValues == {[set |-> FALSE], [set |-> TRUE, value |-> ""], [set |-> TRUE, value |-> "fc-key"]}
FIRECRAWL_API_KEY(env) == IF env.set THEN env.value ELSE ""

ArticleInputs == {[url |-> u] : u \in Urls} \cup
                 {[url |-> u, story_title |-> "T"] : u \in Urls}

\* JSON.stringify leaves out story_title when the input has none.
WithTitle(input, r) ==
    IF "story_title" \in DOMAIN input THEN r @@ [story_title |-> input.story_title] ELSE r

MissingKeyMsg ==
    "FIRECRAWL_API_KEY environment variable is not set. Please set it to use article summarization."
DiscussionNote ==
    "This is a Hacker News discussion page, not an external article. It contains comments and discussion but no article content to scrape."

\* No key check before the scrape.
KeyAlwaysPresent(key) == FALSE

\* !FIRECRAWL_API_KEY
KeyMissing(key) == key = ""

\* No discussion-page check before the scrape.
NeverDiscussionPage(url) == FALSE

\* url.includes("news.ycombinator.com/item")
IsDiscussionPage(url) == Includes(url, DiscussionPattern)

\* fetch_article before the scrape: the two guards, in the order of the code.
\* "scrape" stands for the call of scrapeUrl.
fetchArticleGuards(input, key) ==
    IF KeyMissing(key) THEN Value([error |-> Str(MissingKeyMsg)])
    ELSE IF IsDiscussionPage(input.url)
         THEN Value(WithTitle(input, [url |-> input.url, note |-> DiscussionNote]))
         ELSE [kind |-> "scrape"]

\* fetch_article after `await scrapeUrl(...)`; `res` is what scrapeUrl returned.
\* Reading a property of null reaches the tool's own catch.
fetchArticleScraped(input, res) ==
    IF res = Null
    THEN [url |-> input.url, error |-> Str("Cannot read properties of null")]
    ELSE IF ~res.success \/ "data" \notin DOMAIN res
    THEN WithTitle(input,
             [url |-> input.url,
              error |-> IF "error" \in DOMAIN res THEN res.error
                        ELSE Str("Failed to fetch article content")])
    ELSE WithTitle(input,
             [url |-> input.url,
              content |-> IF res.data.markdown # "" THEN res.data.markdown
                          ELSE "No content available",
              metadata |-> IF "metadata" \in DOMAIN res.data
                           THEN [title |-> res.data.metadata.title,
                                 description |-> res.data.metadata.description,
                                 author |-> res.data.metadata.ogSiteName]
                           ELSE [none |-> TRUE]])

\* scrapeUrl(url, apiKey, options) up to `await fetch(...)`: the POST is issued.
StartScrape ==
    /\ pc' = "scrape"
    /\ http' = [st |-> "fetch"]
    /\ netCalls' = netCalls + 1

Call_scrapeUrl(url, apiKey) ==
    /\ op = "idle"
    /\ op' = "scrapeUrl"
    /\ arg' = [url |-> url, apiKey |-> apiKey]
    /\ StartScrape
    /\ callTime' = now
    /\ UNCHANGED <<reply, batchVars, now, filterTime, result, tool>>

Call_fetchArticle(input, env) ==
    /\ op = "idle"
    /\ op' = "fetchArticle"
    /\ arg' = [input |-> input, url |-> input.url, apiKey |-> FIRECRAWL_API_KEY(env)]
    /\ LET g == fetchArticleGuards(input, FIRECRAWL_API_KEY(env)) IN
       IF g.kind = "scrape"
       THEN /\ StartScrape
            /\ UNCHANGED result
       ELSE /\ result' = g
            /\ pc' = "done"
            /\ UNCHANGED <<http, netCalls>>
    /\ callTime' = now
    /\ UNCHANGED <<reply, batchVars, now, filterTime, tool>>

\* scrapeUrl returns `out`: to its caller, or into fetch_article.
ScrapeReturns(out) ==
    /\ http' = NoHttp
    /\ pc' = "done"
    /\ result' = IF op = "fetchArticle"
                 THEN Value(fetchArticleScraped(arg.input, out.val))
                 ELSE out

ScrapeFetchSettles ==
    /\ pc = "scrape"
    /\ http.st = "fetch"
    /\ \E resp \in ScrapeFetchOutcomes :
         LET h == scrapeUrlFetched(resp) IN
         IF h.st = "done"
         THEN /\ ScrapeReturns(h.out)
              /\ reply' = FetchReply(resp)
         ELSE /\ http' = [st |-> h.st, resp |-> resp]
              /\ UNCHANGED <<pc, result, reply>>
    /\ UNCHANGED <<op, arg, batchVars, netCalls, clockVars, tool>>

ScrapeTextSettles ==
    /\ pc = "scrape"
    /\ http.st = "text"
    /\ \E body \in BodyOutcomes(ErrorTexts) :
         /\ ScrapeReturns(scrapeUrlText(http.resp.status, body).out)
         /\ reply' = TextReply(http.resp.status, body)
    /\ UNCHANGED <<op, arg, batchVars, netCalls, clockVars, tool>>

ScrapeJsonSettles ==
    /\ pc = "scrape"
    /\ http.st = "json"
    /\ \E body \in BodyOutcomes(ScrapeBodies) :
         /\ ScrapeReturns(scrapeUrlParsed(body).out)
         /\ reply' = JsonReply(body)
    /\ UNCHANGED <<op, arg, batchVars, netCalls, clockVars, tool>>

\* -------------------------------------------------------- list_hacker_news
\* One invocation of the tool against a feed of realistic length.  The batch of
\* item fetches is kept as counts: how many are outstanding, resolved, failed.
MaxFeed == 52
Categories   == {"top", "new", "best", "today"}
ToolLimits   == {-1, 0, 1, DefaultLimit, LimitCap, LimitCap + 1}
ToolFeedLens == {0, 1, MaxFeed - 1, MaxFeed}
FeedOfLen(n) == [i \in 1 .. n |-> i]

\* Math.min(limit, 50)
CappedLimit(limit) == Min(limit, LimitCap)

otherVars == <<op, arg, pc, http, reply, batchVars, netCalls, clockVars, result>>

\* execute(input) up to the await of the list fetcher.
Call_listNews(category, limit) ==
    /\ op = "idle"
    /\ tool.st = "idle"
    /\ tool' = [st |-> "list", category |-> category, limit |-> limit,
                pending |-> 0, resolved |-> 0, failed |-> 0]
    /\ UNCHANGED otherVars

\* The list fetcher returned n identifiers; getItems issues n fetches at once.
ToolStartItems(n) ==
    tool' = [tool EXCEPT !.st = "items", !.pending = n]

ToolListFetchSettles ==
    /\ tool.st = "list"
    /\ \E resp \in FetchOutcomes :
         LET h == getStoriesFetched(resp) IN
         IF h.st = "done" THEN ToolStartItems(Len(h.out.val))
         ELSE tool' = [tool EXCEPT !.st = "json"]
    /\ UNCHANGED otherVars

ToolListJsonSettles ==
    /\ tool.st = "json"
    /\ \E body \in {Throw(e) : e \in Errors} \cup
                   {Body(JsonArray(FeedOfLen(n))) : n \in ToolFeedLens} :
         ToolStartItems(Len(getStoriesParsed(body, CappedLimit(tool.limit)).out.val))
    /\ UNCHANGED otherVars

\* One getItem of the batch returns an item, or null.
ToolItemSettles ==
    /\ tool.st = "items"
    /\ tool.pending > 0
    /\ \/ tool' = [tool EXCEPT !.pending = @ - 1, !.resolved = @ + 1]
       \/ tool' = [tool EXCEPT !.pending = @ - 1, !.failed = @ + 1]
    /\ UNCHANGED otherVars

\* Promise.all resumes; "today" keeps some of the resolved items; the stories
\* are formatted and counted.
ToolReturns ==
    /\ tool.st = "items"
    /\ tool.pending = 0
    /\ \E kept \in 0 .. tool.resolved :
         /\ tool.category # "today" => kept = tool.resolved
         /\ tool' = [st |-> "done", category |-> tool.category, limit |-> tool.limit,
                     pending |-> 0, resolved |-> tool.resolved, failed |-> tool.failed,
                     count |-> kept]
    /\ UNCHANGED otherVars

NextTool ==
    \/ \E c \in Categories, l \in ToolLimits : Call_listNews(c, l)
    \/ ToolListFetchSettles
    \/ ToolListJsonSettles
    \/ ToolItemSettles
    \/ ToolReturns

SpecTool == Init /\ [][NextTool]_vars

NextItems ==
    \/ \E s \in IdSeqs : Call_getItems(s)
    \/ \E i \in 1 .. MaxId : ItemFetchSettles(i)
    \/ \E i \in 1 .. MaxId : ItemJsonSettles(i)
    \/ JoinAll

SpecItems == Init /\ [][NextItems]_vars

NextToday ==
    \/ \E c \in Counts : Call_getTodaysTopStories(c)
    \/ ListFetchSettles
    \/ ListJsonSettles
    \/ \E i \in 1 .. MaxId : ItemFetchSettles(i)
    \/ \E i \in 1 .. MaxId : ItemJsonSettles(i)
    \/ JoinAll
    \/ Tick

SpecToday == Init /\ [][NextToday]_vars

NextList ==
    \/ \E name \in ListOps, limit \in Limits : Call_getStories(name, limit)
    \/ ListFetchSettles
    \/ ListJsonSettles

SpecList == Init /\ [][NextList]_vars

NextScrape ==
    \/ \E u \in Urls, k \in ApiKeys : Call_scrapeUrl(u, k)
    \/ \E input \in ArticleInputs, env \in EnvValues : Call_fetchArticle(input, env)
    \/ ScrapeFetchSettles
    \/ ScrapeTextSettles
    \/ ScrapeJsonSettles

SpecScrape == Init /\ [][NextScrape]_vars

\* Every public operation of the API client.
NextApi ==
    \/ \E s \in IdSeqs : Call_getItems(s)
    \/ \E name \in ListOps, limit \in Limits : Call_getStories(name, limit)
    \/ \E c \in Counts : Call_getTodaysTopStories(c)
    \/ \E q \in Queries : Call_searchStories(q)
    \/ \E u \in Urls, k \in ApiKeys : Call_scrapeUrl(u, k)
    \/ ListFetchSettles
    \/ ListJsonSettles
    \/ \E i \in 1 .. MaxId : ItemFetchSettles(i)
    \/ \E i \in 1 .. MaxId : ItemJsonSettles(i)
    \/ JoinAll
    \/ Tick
    \/ SearchFetchSettles
    \/ SearchJsonSettles
    \/ ScrapeFetchSettles
    \/ ScrapeTextSettles
    \/ ScrapeJsonSettles

SpecApi == Init /\ [][NextApi]_vars

\* The item fetches settle and the join resumes: the runtime's event loop runs
\* every callback that is ready, and the network answers every request.
FairSpecItems ==
    /\ SpecItems
    /\ \A i \in 1 .. MaxId : WF_vars(ItemFetchSettles(i)) /\ WF_vars(ItemJsonSettles(i))
    /\ WF_vars(JoinAll)

\* ================================================================== claims
IsResolved(x) == x # Failed /\ x # Pending
Resolved(answers) == SelectSeq(answers, IsResolved)
FailedCount(answers) == Cardinality({i \in DOMAIN answers : answers[i] = Failed})
IsDiscussionUrl(url) ==
    \E i \in 1 .. Len(url) - 2 :
        url[i] = "news.ycombinator.com" /\ url[i + 1] = "/" /\ url[i + 2] = "item"
HasNote(payload) ==
    /\ "url" \in DOMAIN payload
    /\ "note" \in DOMAIN payload
MissingKeyError == Value([error |-> [text |-> MissingKeyMsg]])
FeedAnswered == reply # Pending /\ reply.fault = "none" /\ reply.body.tag = "array"
IsPrefixOfFeed(s) ==
    /\ Len(s) <= Len(reply.body.elems)
    /\ \A k \in 1 .. Len(s) : s[k] = reply.body.elems[k]

\* C1 (as stated): a scrape request for a discussion-page URL, through
\* fetch_article or scrapeUrl and with the API key set or empty, issues no
\* network call and returns a payload holding the URL and an explanatory note.
C1_DiscussionNeverScraped ==
    (op \in {"fetchArticle", "scrapeUrl"} /\ IsDiscussionUrl(arg.url)) =>
        /\ netCalls = 0
        /\ pc = "done" => /\ result.kind = "value"
                          /\ HasNote(result.val)
                          /\ result.val.url = arg.url

\* C1 (amended): through fetch_article a discussion-page URL never causes a
\* network call; with the API key set the payload holds the URL and the note,
\* with the key empty or missing it is the missing-key error.
C1_ToolDiscussionGuard ==
    (op = "fetchArticle" /\ IsDiscussionUrl(arg.url)) =>
        /\ netCalls = 0
        /\ pc = "done"
        /\ IF arg.apiKey = ""
           THEN result = MissingKeyError
           ELSE /\ result.kind = "value"
                /\ HasNote(result.val)
                /\ result.val.url = arg.url
                /\ result.val.note = DiscussionNote

C1_Witness ==
    /\ op = "fetchArticle"
    /\ arg.url = DiscussionUrl
    /\ arg.apiKey = "fc-key"
    /\ pc = "done"
    /\ netCalls = 0
    /\ HasNote(result.val)

\* C2 (as stated): with an empty or missing API key a scrape request, through
\* fetch_article or through scrapeUrl(url, ""), issues no network call and
\* returns a structured error.
C2_EmptyKeyNeverCalls ==
    (op \in {"fetchArticle", "scrapeUrl"} /\ arg.apiKey = "") =>
        /\ netCalls = 0
        /\ pc = "done" => /\ result.kind = "value"
                          /\ "error" \in DOMAIN result.val

\* C2 (amended): through fetch_article, with an empty or missing API key, every
\* URL gets the missing-key error and no network call is issued.
C2_ToolEmptyKeyGuard ==
    (op = "fetchArticle" /\ arg.apiKey = "") =>
        /\ netCalls = 0
        /\ pc = "done"
        /\ result = MissingKeyError

C2_Witness ==
    /\ op = "fetchArticle"
    /\ arg.url = ArticleUrl
    /\ arg.apiKey = ""
    /\ pc = "done"
    /\ netCalls = 0
    /\ result = MissingKeyError

\* C3 (as stated): for every limit N <= 50, negative ones included, a list
\* fetcher's result has length <= N and <= the feed's length and is the feed's
\* first entries in feed order.
C3_AtMostLimit ==
    (op \in ListOps /\ pc = "done" /\ arg.limit <= LimitCap) =>
        /\ result.kind = "value"
        /\ Len(result.val) <= arg.limit
        /\ FeedAnswered => IsPrefixOfFeed(result.val)

\* C3 (amended): for 0 <= N <= 50 the result is the feed's first min(N, length)
\* entries in feed order; for a negative N it is the feed without its last -N
\* entries, so a prefix of the feed whose length is not <= N; a feed that could
\* not be fetched gives the empty list.
C3_PrefixOfFeed ==
    (op \in ListOps /\ pc = "done" /\ arg.limit <= LimitCap) =>
        /\ result.kind = "value"
        /\ IF FeedAnswered
           THEN /\ IsPrefixOfFeed(result.val)
                /\ Len(result.val) =
                       IF arg.limit >= 0
                       THEN Min(arg.limit, Len(reply.body.elems))
                       ELSE Max(Len(reply.body.elems) + arg.limit, 0)
           ELSE result.val = <<>>

C3_Witness ==
    /\ op = "getNewStories"
    /\ pc = "done"
    /\ arg.limit = 1
    /\ FeedAnswered
    /\ reply.body.elems = <<2, 1>>
    /\ result = Value(<<2>>)

\* C4: getItems returns exactly the items of the identifiers that resolved, in
\* the order of the input, whatever the order in which the fetches completed;
\* with k of n identifiers failing the result has n - k items.
C4_ResolvedInInputOrder ==
    (op = "getItems" /\ pc = "done") =>
        /\ result = Value(Resolved(net))
        /\ Len(result.val) = Len(arg.ids) - FailedCount(net)
        /\ \A k \in 1 .. Len(result.val) :
             \E i \in 1 .. Len(arg.ids) :
                 /\ result.val[k].id = arg.ids[i]
                 /\ k = Cardinality({j \in 1 .. i : net[j] # Failed})

C4_Witness ==
    /\ op = "getItems"
    /\ pc = "done"
    /\ arg.ids = <<2, 1>>
    /\ settled = <<2, 1>>
    /\ Len(result.val) = 2
    /\ result.val[1].id = 2
    /\ result.val[2].id = 1

\* C5: every item getTodaysTopStories returns is a story created not more than
\* 86400 seconds before the time of the call.
C5_OnlyRecentStories ==
    (op = "getTodaysTopStories" /\ pc = "done") =>
        /\ result.kind = "value"
        /\ \A k \in 1 .. Len(result.val) :
             /\ result.val[k].type = "story"
             /\ result.val[k].time * 1000 >= callTime - 86400 * 1000

C5_Witness ==
    /\ op = "getTodaysTopStories"
    /\ pc = "done"
    /\ Len(result.val) = 1
    /\ \E i \in DOMAIN net : net[i] # Failed /\ net[i].type = "job" /\ net[i].time = MaxTime

\* C6: whatever the network does, no operation of the API client raises to its
\* caller: it completes with a value, which on failure is null, the empty list,
\* the empty search result, or a result with success = false.
C6_NeverRaises ==
    /\ result.kind # "raise"
    /\ \A i \in DOMAIN promises :
         /\ promises[i].out.kind # "raise"
         /\ net[i] = Failed => promises[i].out = Value(Null)
    /\ pc = "done" =>
         /\ result.kind = "value"
         /\ (op \in ListOps \cup {"getTodaysTopStories"} /\ reply.fault # "none")
                => result.val = <<>>
         /\ (op \in {"getItems", "getTodaysTopStories"} /\ \A i \in DOMAIN net : net[i] = Failed)
                => result.val = <<>>
         /\ (op = "searchStories" /\ reply.fault # "none")
                => result.val = [hits |-> <<>>, nbHits |-> 0]
         /\ (op = "scrapeUrl" /\ reply.fault # "none")
                => result.val.success = FALSE

C6_Witness ==
    /\ op = "getItems"
    /\ pc = "done"
    /\ Len(arg.ids) = 2
    /\ \A i \in DOMAIN net : net[i] = Failed
    /\ result = Value(<<>>)

\* C7: scrapeUrl turns a non-success response with status s and body b into a
\* failure whose error carries s and b, a transport exception into a failure
\* whose error is the exception's message, and returns the JSON of a success
\* response unchanged.
C7_ScrapeMapping ==
    (op = "scrapeUrl" /\ pc = "done") =>
        /\ result.kind = "value"
        /\ (reply.fault = "status" /\ "text" \in DOMAIN reply) =>
              /\ result.val.success = FALSE
              /\ result.val.error.template = "Firecrawl API error: ${status} - ${errorText}"
              /\ result.val.error.status = reply.status
              /\ result.val.error.errorText = reply.text
        /\ reply.fault = "transport" =>
              result.val = [success |-> FALSE, error |-> [text |-> reply.err.message]]
        /\ reply.fault = "none" => result.val = reply.body

C7_Witness ==
    /\ op = "scrapeUrl"
    /\ pc = "done"
    /\ reply.fault = "status"
    /\ reply.status = 500
    /\ "text" \in DOMAIN reply
    /\ reply.text = "server error"
    /\ result.val.error.status = 500
    /\ result.val.error.errorText = "server error"

\* C8: getItems issues all N fetches before it awaits any, returns only when
\* every one has settled, a fetch that failed or settled is not touched by its
\* siblings and aborts none of them, and under fairness getItems returns.
C8_AllIssued ==
    (op = "getItems" /\ pc \in {"items", "done"}) =>
        /\ Len(promises) = Len(arg.ids)
        /\ netCalls = Len(arg.ids)
        /\ \A i \in DOMAIN promises : promises[i].st \in {"fetch", "json", "done"}
C8_ReturnsAfterAll ==
    (op = "getItems" /\ pc = "done") =>
        /\ \A i \in DOMAIN promises : promises[i].st = "done"
        /\ result.kind = "value"
C8_SiblingsUntouched ==
    \A i \in DOMAIN promises :
        /\ promises[i].st = "done" => (i \in DOMAIN promises' /\ promises'[i] = promises[i])
        /\ (i \in DOMAIN promises' /\ promises'[i] # promises[i]) =>
              \A j \in DOMAIN promises \ {i} : promises'[j] = promises[j]
C8_FanOutJoinAll ==
    /\ [](C8_AllIssued /\ C8_ReturnsAfterAll)
    /\ [][C8_SiblingsUntouched]_vars
    /\ (op = "getItems" /\ pc = "items") ~> (pc = "done")

C8_Witness ==
    /\ op = "getItems"
    /\ pc = "done"
    /\ Len(arg.ids) = 2
    /\ settled = <<1, 2>>
    /\ net[1] = Failed
    /\ net[2] # Failed
    /\ result = Value(<<net[2]>>)

\* C9: whatever limit list_hacker_news is given, never more than 50 item
\* fetches are outstanding at once and never more than 50 stories are returned.
C9_AtMostFifty ==
    tool.st \in {"items", "done"} =>
        /\ tool.pending <= 50
        /\ tool.st = "done" => tool.count <= 50

\* C10 (as stated): getTodaysTopStories keeps exactly the resolved stories
\* created within 86400 seconds of the time it was called.
C10_WindowAtCallTime ==
    (op = "getTodaysTopStories" /\ pc = "done") =>
        LET InWindow(it) == it.type = "story" /\ it.time * 1000 >= callTime - 86400 * 1000
        IN  result = Value(SelectSeq(Resolved(net), InWindow))

\* C10 (amended): getTodaysTopStories keeps exactly the resolved stories created
\* within 86400 seconds of the time the clock is read after the list fetch and
\* the batch of item fetches have completed, which is not before the call.
C10_WindowAtFilterTime ==
    (op = "getTodaysTopStories" /\ pc = "done") =>
        LET InWindow(it) == it.type = "story" /\ it.time * 1000 >= filterTime - 86400 * 1000
        IN  /\ result = Value(SelectSeq(Resolved(net), InWindow))
            /\ filterTime >= callTime
            /\ filterTime = now

C10_Witness ==
    /\ op = "getTodaysTopStories"
    /\ pc = "done"
    /\ filterTime > callTime
    /\ result.val # <<>>
    /\ \E i \in DOMAIN net :
         /\ net[i] # Failed
         /\ net[i].type = "story"
         /\ net[i].time * 1000 >= callTime - 86400 * 1000
         /\ net[i].time * 1000 < filterTime - 86400 * 1000
====
